---- MODULE Spec2Model ----
(***************************************************************************)
(* Model of src/shadyside_bot.py: the TwitterStream connection loop        *)
(* (start), the connection set-up (setup_connection) and the write         *)
(* callback that frames and classifies the stream (handle_tweet).          *)
(*                                                                         *)
(* Durations are counted in ticks of a quarter of a second, so that the    *)
(* initial network back-off of 0.25 s is the integer 1.                    *)
(*                                                                         *)
(* The byte stream is modelled over a small alphabet of stream segments:   *)
(*   "D"  the bytes  {"disconnect":{"reason":"duplicate"}   (object open)  *)
(*   "N"  the bytes  {"coordinates":null                    (object open)  *)
(*   "}"  the closing brace of the object                                  *)
(*   CR, LF  the two terminator bytes                                      *)
(* A chunk is a non-empty sequence of these; the transport may cut the     *)
(* stream between any two of them.                                         *)
(*                                                                         *)
(* The other object-open segments are named in ControlMessages and         *)
(* TweetName.                                                              *)
(*                                                                         *)
(* The specifications share the actions.  Spec explores the framing: every *)
(* chunk over FrameBytes, few connection outcomes.  SpecBackoff explores   *)
(* the connection loop: many outcomes, whole-frame chunks.  SpecClassify   *)
(* explores the dispatch of handle_tweet over whole frames of every        *)
(* message.  SpecFoods explores find_foods over texts and vocabularies.    *)
(***************************************************************************)
EXTENDS Integers, Sequences, FiniteSets, TLC

VARIABLES
    pc,                     \* position of start(): "loop" (line 148) or "perform" (line 150)
    buffer,                 \* self.buffer
    backoff_network_error,  \* local of start(), in ticks
    backoff_http_error,     \* local of start(), in ticks
    backoff_rate_limit,     \* local of start(), in ticks
    num_reconnect,          \* self.num_reconnect
    nHttp,                  \* history: passes through the else branch (lines 168-173)
    nRate,                  \* history: passes through the 420 branch (lines 162-167)
    since,                  \* history: chunks of this connection since the last frame boundary
    last,                   \* history: what the latest step did
    conn,                   \* self.conn: the handle and the Authorization header set on it
    foodlist,               \* the global foodlist of find_foods
    foods_file,             \* environment: the lines of the vocabulary file
    handles,                \* history: handles created, headers signed, handles open, attempts
    sleeps,                 \* history: the time.sleep calls since perform() was last called
    out                     \* history: what the dispatch of the latest step did

vars == <<pc, buffer, backoff_network_error, backoff_http_error, backoff_rate_limit,
          num_reconnect, nHttp, nRate, since, last, conn, foodlist, foods_file,
          handles, sleeps, out>>

----------------------------------------------------------------------------
(* Bounds of the model *)

MaxBuf == 4            \* longest buffer kept between two steps (Spec)
MaxChunk == 2          \* longest chunk the transport delivers (Spec)
MaxOutcomes == 1       \* connection outcomes explored by Spec
MaxReconnect == 17     \* network errors explored by SpecBackoff
MaxHttp == 7           \* other-status outcomes explored by SpecBackoff
MaxRate == 3           \* 420 outcomes explored by SpecBackoff
MaxBackoffBuf == 3     \* longest buffer kept between two steps (SpecBackoff)
GridMargin == 1        \* how far outside the bounding box tweet points lie (SpecClassify)
MaxText == 5           \* longest text given to find_foods (SpecFoods)

----------------------------------------------------------------------------
(* Units and program constants *)

Seconds(n) == 4 * n
QuarterSecond == 1
RateLimitStatus == 420

Min(a, b) == IF a <= b THEN a ELSE b

RECURSIVE Pow2(_)
Pow2(k) == IF k = 0 THEN 1 ELSE 2 * Pow2(k - 1)

----------------------------------------------------------------------------
(* The byte stream *)

CR == "CR"
LF == "LF"
Whitespace == {CR, LF}
FrameBytes == {"N", "}"} \cup Whitespace

RECURSIVE SeqsUpTo(_, _)
SeqsUpTo(S, n) ==
    IF n = 0 THEN {<<>>}
    ELSE LET shorter == SeqsUpTo(S, n - 1)
         IN  shorter \cup {Append(s, b) : s \in {t \in shorter : Len(t) = n - 1}, b \in S}

Chunks == SeqsUpTo(FrameBytes, MaxChunk) \ {<<>>}

\* what the server sends: a message and its terminator, or a blank keep-alive line
Frame(tok) == <<tok, "}", CR, LF>>
KeepAlive == <<CR, LF>>
BackoffChunks == {Frame("D"), Frame("N"), KeepAlive, <<"}", CR, LF>>, <<"N">>}

\* data.endswith('\r\n')
EndsWithCRLF(data) ==
    /\ Len(data) >= 2
    /\ data[Len(data) - 1] = CR
    /\ data[Len(data)] = LF

\* str.strip(): leading and trailing whitespace removed
Strip(s) ==
    LET keep == {i \in 1..Len(s) : s[i] \notin Whitespace}
    IN  IF keep = {} THEN <<>>
        ELSE SubSeq(s, CHOOSE i \in keep : \A j \in keep : i <= j,
                       CHOOSE i \in keep : \A j \in keep : i >= j)

\* the condition of line 179
FrameCompleteOnBuffer(data, buf) == EndsWithCRLF(buf) /\ Strip(buf) # <<>>
FrameComplete(data, buf) == EndsWithCRLF(data) /\ Strip(buf) # <<>>

----------------------------------------------------------------------------
(* Decoded messages *)

Coordinates(kind, lon, lat) == [kind |-> kind, lon |-> lon, lat |-> lat]
AbsentCoordinates == Coordinates("absent", 0, 0)
NullCoordinates == Coordinates("null", 0, 0)
Point(lon, lat) == Coordinates("point", lon, lat)

\* a message: its truthy limit, disconnect and warning fields, its coordinates,
\* its text and the bounding box of its place (<<>> without a place)
FullMessage(l, d, w, c, text, place) ==
    [limit |-> l, disconnect |-> d, warning |-> w, coordinates |-> c,
     text |-> text, place |-> place]

Message(l, d, w, c) == FullMessage(l, d, w, c, <<>>, <<>>)
NoMessage == Message(FALSE, FALSE, FALSE, Coordinates("none", 0, 0))

\* The region: nghd_shape, a convex polygon with its vertices counter-clockwise
Polygon == <<(<<0, 0>>), (<<4, 0>>), (<<0, 2>>)>>

SetMin(S) == CHOOSE x \in S : \A y \in S : x <= y
SetMax(S) == CHOOSE x \in S : \A y \in S : x >= y

\* nghd_shape.bounds: (minx, miny, maxx, maxy)
ShapeBounds(shape) ==
    LET xs == {shape[i][1] : i \in 1..Len(shape)}
        ys == {shape[i][2] : i \in 1..Len(shape)}
    IN  <<SetMin(xs), SetMin(ys), SetMax(xs), SetMax(ys)>>

min_lon == ShapeBounds(Polygon)[1]
min_lat == ShapeBounds(Polygon)[2]
max_lon == ShapeBounds(Polygon)[3]
max_lat == ShapeBounds(Polygon)[4]

\* the test of lines 195-196
InBoundingBoxSwapped(lon, lat) ==
    lat >= min_lon /\ lat <= max_lon /\ lon >= min_lat /\ lon <= max_lat
InBoundingBox(lon, lat) ==
    lon >= min_lon /\ lon <= max_lon /\ lat >= min_lat /\ lat <= max_lat

\* nghd_shape.contains(Point(lon, lat)): the point is in the interior of the
\* polygon, left of every edge
ContainsOrTouches(lon, lat) ==
    \A i \in 1..Len(Polygon) :
        LET a == Polygon[i]
            b == Polygon[(i % Len(Polygon)) + 1]
        IN  (b[1] - a[1]) * (lat - a[2]) - (b[2] - a[2]) * (lon - a[1]) >= 0
Contains(lon, lat) ==
    \A i \in 1..Len(Polygon) :
        LET a == Polygon[i]
            b == Polygon[(i % Len(Polygon)) + 1]
        IN  (b[1] - a[1]) * (lat - a[2]) - (b[2] - a[2]) * (lon - a[1]) > 0

\* The text of a tweet is a sequence of characters
Space == " "
TextChars == {"a", "A", "b", Space}
TweetTexts == <<(<<"b">>), (<<"a", Space, "b">>)>>

\* the points tweets are sent from: the bounding box and a margin around it
GridPoints == ((min_lon - GridMargin)..(max_lon + GridMargin))
                  \X ((min_lat - GridMargin)..(max_lat + GridMargin))

\* the object-open segment of a tweet at (lon, lat) with text TweetTexts[t]
TweetName(lon, lat, t) == "T" \o ToString(lon) \o "," \o ToString(lat) \o "," \o ToString(t)
Tweets == {<<p[1], p[2], t>> : p \in GridPoints, t \in 1..Len(TweetTexts)}
TweetTokens == {TweetName(x[1], x[2], x[3]) : x \in Tweets}

FarPlace == <<100, 100, 101, 101>>

\* the object-open segments of the other messages, each with its message:
\*   D   a disconnect notice          N   a tweet with null coordinates, its place
\*   L   a limit notice                   overlapping the region; NF: its place far away
\*   W   a warning                    O   an object with none of the fields read
\*   LD, LW, LT, DW, DN, WT  objects carrying the fields of two of the shapes
ControlMessages ==
    {<<"D", Message(FALSE, TRUE, FALSE, AbsentCoordinates)>>,
     <<"N", FullMessage(FALSE, FALSE, FALSE, NullCoordinates, <<"a">>, ShapeBounds(Polygon))>>,
     <<"NF", FullMessage(FALSE, FALSE, FALSE, NullCoordinates, <<"a">>, FarPlace)>>,
     <<"L", Message(TRUE, FALSE, FALSE, AbsentCoordinates)>>,
     <<"W", Message(FALSE, FALSE, TRUE, AbsentCoordinates)>>,
     <<"O", Message(FALSE, FALSE, FALSE, AbsentCoordinates)>>,
     <<"LD", Message(TRUE, TRUE, FALSE, AbsentCoordinates)>>,
     <<"LW", Message(TRUE, FALSE, TRUE, AbsentCoordinates)>>,
     <<"LT", FullMessage(TRUE, FALSE, FALSE, Point(1, 1), <<"a">>, <<>>)>>,
     <<"DW", Message(FALSE, TRUE, TRUE, AbsentCoordinates)>>,
     <<"DN", FullMessage(FALSE, TRUE, FALSE, NullCoordinates, <<"a">>, <<>>)>>,
     <<"WT", FullMessage(FALSE, FALSE, TRUE, Point(1, 1), <<"a">>, <<>>)>>}
ControlTokens == {c[1] : c \in ControlMessages}

OpenTokens == ControlTokens \cup TweetTokens

\* the object each open segment starts
MessageTable ==
    [tok \in OpenTokens |->
        IF tok \in ControlTokens
        THEN (CHOOSE c \in ControlMessages : c[1] = tok)[2]
        ELSE LET x == CHOOSE y \in Tweets : TweetName(y[1], y[2], y[3]) = tok
             IN  FullMessage(FALSE, FALSE, FALSE, Point(x[1], x[2]), TweetTexts[x[3]], <<>>)]

MessageOf(tok) == MessageTable[tok]

NotWs(b) == b \notin Whitespace

\* json.loads: one object, whitespace allowed around and between its tokens;
\* anything else is a ValueError
JsonLoads(s) ==
    LET toks == SelectSeq(s, NotWs)
    IN  IF Len(toks) = 2 /\ toks[1] \in OpenTokens /\ toks[2] = "}"
        THEN [ok |-> TRUE, message |-> MessageOf(toks[1])]
        ELSE [ok |-> FALSE, message |-> NoMessage]

ClassifyNoNullTest(message) ==
    IF message.limit THEN "limit"
    ELSE IF message.disconnect THEN "disconnect"
    ELSE IF message.warning THEN "warning"
    ELSE IF message.coordinates.kind = "absent" THEN "KeyError"
    ELSE "tweet"
ClassifyDisconnectFirst(message) ==
    IF message.disconnect THEN "disconnect"
    ELSE IF message.limit THEN "limit"
    ELSE IF message.warning THEN "warning"
    ELSE IF message.coordinates.kind = "absent" THEN "KeyError"
    ELSE IF message.coordinates.kind = "null" THEN "pass"
    ELSE "tweet"

\* the branch of lines 184-202 a decoded message takes
Classify(message) ==
    IF message.limit THEN "limit"
    ELSE IF message.disconnect THEN "disconnect"
    ELSE IF message.warning THEN "warning"
    ELSE IF message.coordinates.kind = "absent" THEN "KeyError"
    ELSE IF message.coordinates.kind = "null" THEN "pass"
    ELSE "tweet"

\* the branches that leave handle_tweet by an exception
RaisesKeyErrorOnly(branch) == branch = "KeyError"
RaisesOnWarning(branch) == branch \in {"disconnect", "KeyError", "warning"}
Raises(branch) == branch \in {"disconnect", "KeyError"}

----------------------------------------------------------------------------
(* find_foods *)

Lower(c) == IF c = "A" THEN "a" ELSE IF c = "B" THEN "b" ELSE IF c = "I" THEN "i" ELSE c

\* str.lower()
LowerStr(s) == [i \in 1..Len(s) |-> Lower(s[i])]

\* text.split(' '): the words between single spaces, empty words included
RECURSIVE Split(_)
Split(text) ==
    IF \A i \in 1..Len(text) : text[i] # Space
    THEN <<text>>
    ELSE LET k == CHOOSE i \in 1..Len(text) :
                      text[i] = Space /\ \A j \in 1..(i - 1) : text[j] # Space
         IN  <<SubSeq(text, 1, k - 1)>> \o Split(SubSeq(text, k + 1, Len(text)))

\* ' '.join(pair)
Join(pair) == pair[1] \o <<Space>> \o pair[2]

\* zip(words, words[1:])
Pairs(words) == [i \in 1..(Len(words) - 1) |-> <<words[i], words[i + 1]>>]

\* f.strip() of a line of the file: its surrounding blanks and line end removed
StripLine(line) ==
    LET keep == {i \in 1..Len(line) : line[i] \notin {Space, CR, LF}}
    IN  IF keep = {} THEN <<>> ELSE SubSeq(line, SetMin(keep), SetMax(keep))

\* line 69: the vocabulary read from the file, as the set of its terms
\* (the list is only ever searched)
LoadFoodlist(file) == {LowerStr(StripLine(file[i])) : i \in 1..Len(file)}

NotLoaded == [loaded |-> FALSE, terms |-> {}]

\* lines 68-69: the vocabulary is read at the first call and kept
FoodlistAfter(fl, file) ==
    IF fl.loaded THEN fl ELSE [loaded |-> TRUE, terms |-> LoadFoodlist(file)]

\* lines 70-75 with the vocabulary terms
FindFoodsUnigramsFirst(terms, text) ==
    LET words == Split(text)
        pairs == Pairs(words)
        bigrams == [i \in 1..Len(pairs) |-> Join(pairs[i])]
        Known(w) == LowerStr(w) \in terms
    IN  SelectSeq(words, Known) \o SelectSeq(bigrams, Known)
FindFoodsLongestOnly(terms, text) ==
    LET words == Split(text)
        pairs == Pairs(words)
        bigrams == [i \in 1..Len(pairs) |-> Join(pairs[i])]
        Known(w) == LowerStr(w) \in terms
        found == SelectSeq(bigrams, Known)
    IN  IF found # <<>> THEN found ELSE SelectSeq(words, Known)
FindFoods(terms, text) ==
    LET words == Split(text)
        pairs == Pairs(words)
        bigrams == [i \in 1..Len(pairs) |-> Join(pairs[i])]
        Known(w) == LowerStr(w) \in terms
    IN  SelectSeq(bigrams, Known) \o SelectSeq(words, Known)

\* The vocabulary files
DrugsFile == <<(<<"a", LF>>), (<<"A", Space, "b", LF>>)>>
ExampleFile ==
    <<(<<"i", "c", "e", Space, "c", "r", "e", "a", "m", LF>>),
      (<<"i", "c", "e", LF>>),
      (<<"c", "r", "e", "a", "m", LF>>)>>
VocabularyFiles ==
    {DrugsFile,
     ExampleFile,
     <<(<<"a", LF>>), (<<"b", LF>>), (<<"a", Space, "b", LF>>)>>,
     <<(<<"b", Space, "a", LF>>), (<<"a", LF>>), (<<LF>>)>>,
     <<(<<"a", Space, "a">>), (<<Space, "B", Space, LF>>), (<<"a", Space, "a", LF>>)>>}

ExampleText ==
    <<"I", Space, "l", "i", "k", "e", Space, "i", "c", "e", Space,
      "c", "r", "e", "a", "m", Space, "t", "o", "d", "a", "y">>
Texts == SeqsUpTo(TextChars, MaxText) \cup {ExampleText}

----------------------------------------------------------------------------
(* The dispatch of handle_tweet *)

\*   branch     the branch taken, "none" when nothing was dispatched
\*   notice     the notice logged: "limit", "warning" or "none"
\*   boxTested  the bounding-box test of lines 195-196 was evaluated
\*   polyTested nghd_shape.contains was called
\*   scanned    find_foods was called;  text: its argument
\*   matches    the foods logged, one match event each
Outcome(branch, notice, boxTested, polyTested, scanned, text, matches) ==
    [branch |-> branch, notice |-> notice, boxTested |-> boxTested,
     polyTested |-> polyTested, scanned |-> scanned, text |-> text, matches |-> matches]

NoOutcome == Outcome("none", "none", FALSE, FALSE, FALSE, <<>>, <<>>)

\* lines 184-202 for a decoded message, with the vocabulary terms find_foods uses
Dispatch(message, terms) ==
    LET branch == Classify(message)
        c == message.coordinates
        inBox == branch = "tweet" /\ InBoundingBox(c.lon, c.lat)
        inShape == inBox /\ Contains(c.lon, c.lat)
    IN  Outcome(branch,
                IF branch \in {"limit", "warning"} THEN branch ELSE "none",
                branch = "tweet", inBox, inShape,
                IF inShape THEN message.text ELSE <<>>,
                IF inShape THEN FindFoods(terms, message.text) ELSE <<>>)

----------------------------------------------------------------------------
(* The back-off arithmetic of start() *)

NetworkBackoffUncapped(b) == b + Seconds(1)
NetworkBackoff(b) == Min(b + Seconds(1), Seconds(16))
HttpBackoffUncapped(b) == b * 2
HttpBackoff(b) == Min(b * 2, Seconds(320))
RateBackoffCapped(b) == Min(b * 2, Seconds(320))
RateBackoff(b) == b * 2

----------------------------------------------------------------------------
(* History record of the latest step *)

\*   op       the operation: "init", "setup", "handle_tweet", "network_error", "status"
\*   data     the chunk handle_tweet was given
\*   accum    the chunks of the connection since the last frame boundary, data included
\*   text     the text handed to json.loads, <<>> when it was not called
\*   decoded  json.loads returned a message;  message: that message
\*   branch   the branch of the dispatch the message took, "none" without a message
\*   raised   handle_tweet left by an exception
\*   outcome  the branch of start() taken: "none", "network", "rate", "http"
\*   slept    the duration given to time.sleep, in ticks
\*   sc       the HTTP status perform() returned with, 0 when it did not return
\*   dropped  the buffer content setup_connection discarded
Step(op, data, accum, text, decoded, message, branch, raised, outcome, slept, sc, dropped) ==
    [op |-> op, data |-> data, accum |-> accum, text |-> text, decoded |-> decoded,
     message |-> message, branch |-> branch, raised |-> raised, outcome |-> outcome,
     slept |-> slept, sc |-> sc, dropped |-> dropped]

InitProgram ==
    /\ pc = "loop"
    /\ buffer = <<>>
    /\ backoff_network_error = QuarterSecond
    /\ backoff_http_error = Seconds(5)
    /\ backoff_rate_limit = Seconds(60)
    /\ num_reconnect = 0
    /\ nHttp = 0
    /\ nRate = 0
    /\ since = <<>>
    /\ last = Step("init", <<>>, <<>>, <<>>, FALSE, NoMessage, "none", FALSE, "none", 0, 0, <<>>)
    /\ conn = [id |-> 2, header |-> 2]
    /\ handles = [created |-> 2, signed |-> 2, open |-> {2}, attempts |-> <<>>]
    /\ foodlist = NotLoaded
    /\ sleeps = <<>>
    /\ out = NoOutcome

Init == InitProgram /\ foods_file = DrugsFile

----------------------------------------------------------------------------
(* Actions *)

\* setup_connection as start() calls it (line 148): self.conn is set since
\* __init__, so the old handle is closed and the buffer emptied.
SetupBufferKept == buffer
SetupBuffer == <<>>

\* pycurl.Curl() (line 111): a handle no earlier one is
CachedHandle == conn.id
NewHandle == handles.created + 1

\* get_oauth_header (lines 129-138): a header signed over a new nonce and timestamp
CachedHeader == conn.header
NewHeader == handles.signed + 1

\* The step is lines 148-150: setup_connection, then the call of perform() on
\* the handle it made.
SetupConnection ==
    /\ pc = "loop"
    /\ pc' = "perform"
    /\ buffer' = SetupBuffer
    /\ since' = <<>>
    /\ last' = Step("setup", <<>>, <<>>, <<>>, FALSE, NoMessage, "none", FALSE, "none", 0, 0, buffer)
    /\ conn' = [id |-> NewHandle, header |-> NewHeader]
    /\ handles' = [created |-> handles.created + 1,
                   signed |-> handles.signed + 1,
                   open |-> (handles.open \ {conn.id}) \cup {conn'.id},
                   attempts |-> Append(handles.attempts, conn')]
    /\ sleeps' = <<>>
    /\ out' = NoOutcome
    /\ UNCHANGED <<backoff_network_error, backoff_http_error, backoff_rate_limit,
                   num_reconnect, nHttp, nRate, foodlist, foods_file>>

\* where start() continues when perform() raises
AfterExceptionExit == "exit"
AfterException == "loop"

ExceptClauseResetting ==
    /\ backoff_network_error' = NetworkBackoff(backoff_network_error)
    /\ num_reconnect' = num_reconnect + 1
    /\ pc' = AfterException
    /\ backoff_http_error' = Seconds(5)
    /\ sleeps' = Append(sleeps, backoff_network_error)
    /\ UNCHANGED <<backoff_rate_limit, nHttp, nRate, conn, handles, foods_file>>

ExceptClauseSleepAfter ==
    /\ backoff_network_error' = NetworkBackoff(backoff_network_error)
    /\ num_reconnect' = num_reconnect + 1
    /\ pc' = AfterException
    /\ sleeps' = Append(sleeps, backoff_network_error')
    /\ UNCHANGED <<backoff_http_error, backoff_rate_limit, nHttp, nRate, conn, handles,
                   foods_file>>

\* the except clause of start(), lines 151-158
ExceptClause ==
    /\ backoff_network_error' = NetworkBackoff(backoff_network_error)
    /\ num_reconnect' = num_reconnect + 1
    /\ pc' = AfterException
    /\ sleeps' = Append(sleeps, backoff_network_error)
    /\ UNCHANGED <<backoff_http_error, backoff_rate_limit, nHttp, nRate, conn, handles,
                   foods_file>>

\* perform() fails in the transport: connect or read error, idle time-out
NetworkError ==
    /\ pc = "perform"
    /\ ExceptClause
    /\ last' = Step("network_error", <<>>, <<>>, <<>>, FALSE, NoMessage, "none", FALSE,
                    "network", backoff_network_error, 0, <<>>)
    /\ out' = NoOutcome
    /\ UNCHANGED <<buffer, since, foodlist>>

\* the buffer after buf was decoded (line 182)
DecodedBuffer(buf) == <<>>

\* handle_tweet leaves by an exception: json.loads failed, or the dispatch raised
RaisedSwallowDecode(framed, r) == framed /\ r.ok /\ Raises(Classify(r.message))
Raised(framed, r) == framed /\ (~r.ok \/ Raises(Classify(r.message)))

\* handle_tweet(data), called by perform() for one chunk. An exception in the
\* callback aborts the transfer: perform() raises and start() runs its except clause.
HandleTweet(data) ==
    /\ pc = "perform"
    /\ LET buf == buffer \o data
           framed == FrameComplete(data, buf)
           r == JsonLoads(buf)
           decoded == framed /\ r.ok
           message == IF decoded THEN r.message ELSE NoMessage
           branch == IF decoded THEN Classify(message) ELSE "none"
           accum == since \o data
           result == IF decoded
                     THEN Dispatch(message, FoodlistAfter(foodlist, foods_file).terms)
                     ELSE NoOutcome
       IN  /\ buffer' = IF decoded THEN DecodedBuffer(buf) ELSE buf
           /\ since' = IF EndsWithCRLF(data) /\ Strip(accum) # <<>> THEN <<>> ELSE accum
           /\ out' = result
           /\ foodlist' = IF result.scanned THEN FoodlistAfter(foodlist, foods_file)
                          ELSE foodlist
           /\ IF Raised(framed, r)
              THEN /\ ExceptClause
                   /\ last' = Step("handle_tweet", data, accum, IF framed THEN buf ELSE <<>>,
                                   decoded, message, branch, TRUE,
                                   "network", backoff_network_error, 0, <<>>)
              ELSE /\ last' = Step("handle_tweet", data, accum, IF framed THEN buf ELSE <<>>,
                                   decoded, message, branch, FALSE, "none", 0, 0, <<>>)
                   /\ UNCHANGED <<pc, backoff_network_error, backoff_http_error,
                                  backoff_rate_limit, num_reconnect, nHttp, nRate,
                                  conn, handles, foods_file, sleeps>>

StatusCodes == {200, RateLimitStatus, 503}

PerformReturnSuccess(sc) ==
    /\ pc = "perform"
    /\ pc' = "loop"
    /\ IF sc = RateLimitStatus
       THEN /\ backoff_rate_limit' = RateBackoff(backoff_rate_limit)
            /\ nRate' = nRate + 1
            /\ last' = Step("status", <<>>, <<>>, <<>>, FALSE, NoMessage, "none", FALSE,
                            "rate", backoff_rate_limit, sc, <<>>)
            /\ sleeps' = Append(sleeps, backoff_rate_limit)
            /\ UNCHANGED <<backoff_http_error, nHttp>>
       ELSE IF sc \in 200..299
       THEN /\ last' = Step("status", <<>>, <<>>, <<>>, FALSE, NoMessage, "none", FALSE,
                            "none", 0, sc, <<>>)
            /\ UNCHANGED <<backoff_http_error, backoff_rate_limit, nHttp, nRate, sleeps>>
       ELSE /\ backoff_http_error' = HttpBackoff(backoff_http_error)
            /\ nHttp' = nHttp + 1
            /\ last' = Step("status", <<>>, <<>>, <<>>, FALSE, NoMessage, "none", FALSE,
                            "http", backoff_http_error, sc, <<>>)
            /\ sleeps' = Append(sleeps, backoff_http_error)
            /\ UNCHANGED <<backoff_rate_limit, nRate>>
    /\ out' = NoOutcome
    /\ UNCHANGED <<buffer, since, backoff_network_error, num_reconnect, conn, handles,
                   foodlist, foods_file>>

\* perform() returns: the status check of lines 160-173
PerformReturn(sc) ==
    /\ pc = "perform"
    /\ pc' = "loop"
    /\ IF sc = RateLimitStatus
       THEN /\ backoff_rate_limit' = RateBackoff(backoff_rate_limit)
            /\ nRate' = nRate + 1
            /\ last' = Step("status", <<>>, <<>>, <<>>, FALSE, NoMessage, "none", FALSE,
                            "rate", backoff_rate_limit, sc, <<>>)
            /\ sleeps' = Append(sleeps, backoff_rate_limit)
            /\ UNCHANGED <<backoff_http_error, nHttp>>
       ELSE /\ backoff_http_error' = HttpBackoff(backoff_http_error)
            /\ nHttp' = nHttp + 1
            /\ last' = Step("status", <<>>, <<>>, <<>>, FALSE, NoMessage, "none", FALSE,
                            "http", backoff_http_error, sc, <<>>)
            /\ sleeps' = Append(sleeps, backoff_http_error)
            /\ UNCHANGED <<backoff_rate_limit, nRate>>
    /\ out' = NoOutcome
    /\ UNCHANGED <<buffer, since, backoff_network_error, num_reconnect, conn, handles,
                   foodlist, foods_file>>

\* find_foods(foods_filename, text) called on its own
FindFoodsCall(text) ==
    /\ foodlist' = FoodlistAfter(foodlist, foods_file)
    /\ out' = Outcome("find_foods", "none", FALSE, FALSE, TRUE, text,
                      FindFoods(foodlist'.terms, text))
    /\ UNCHANGED <<pc, buffer, backoff_network_error, backoff_http_error, backoff_rate_limit,
                   num_reconnect, nHttp, nRate, since, last, conn, foods_file, handles,
                   sleeps>>

----------------------------------------------------------------------------
(* Specifications *)

\* Spec: the framing, under every way of cutting the stream into chunks
InBounds ==
    /\ Len(buffer) <= MaxBuf
    /\ num_reconnect + nHttp + nRate <= MaxOutcomes

Next ==
    \/ SetupConnection /\ InBounds'
    \/ NetworkError /\ InBounds'
    \/ \E data \in Chunks : HandleTweet(data) /\ InBounds'
    \/ \E sc \in StatusCodes : PerformReturn(sc) /\ InBounds'

Spec == Init /\ [][Next]_vars

\* SpecBackoff: the connection loop, over long runs of outcomes
InBackoffBounds ==
    /\ Len(buffer) <= MaxBackoffBuf
    /\ num_reconnect <= MaxReconnect
    /\ nHttp <= MaxHttp
    /\ nRate <= MaxRate

NextBackoff ==
    \/ SetupConnection /\ InBackoffBounds'
    \/ NetworkError /\ InBackoffBounds'
    \/ \E data \in BackoffChunks : HandleTweet(data) /\ InBackoffBounds'
    \/ \E sc \in StatusCodes : PerformReturn(sc) /\ InBackoffBounds'

SpecBackoff == Init /\ [][NextBackoff]_vars

\* SpecClassify: the dispatch, over whole frames of every message
ClassifyChunks == {Frame(tok) : tok \in OpenTokens} \cup {KeepAlive}

InClassifyBounds ==
    /\ Len(buffer) <= MaxBackoffBuf
    /\ num_reconnect + nHttp + nRate <= MaxOutcomes

NextClassify ==
    \/ SetupConnection /\ InClassifyBounds'
    \/ NetworkError /\ InClassifyBounds'
    \/ \E data \in ClassifyChunks : HandleTweet(data) /\ InClassifyBounds'
    \/ \E sc \in StatusCodes : PerformReturn(sc) /\ InClassifyBounds'

SpecClassify == Init /\ [][NextClassify]_vars

\* SpecFoods: find_foods over every text and vocabulary file; once the
\* vocabulary is cached, the later calls are explored with a few texts
InitFoods == InitProgram /\ foods_file \in VocabularyFiles

RepeatTexts == {TweetTexts[t] : t \in 1..Len(TweetTexts)} \cup {ExampleText}

NextFoods ==
    \E text \in (IF foodlist.loaded THEN RepeatTexts ELSE Texts) : FindFoodsCall(text)

SpecFoods == InitFoods /\ [][NextFoods]_vars

\* LiveSpec: SpecBackoff with the fairness of a sequential loop: once start() is
\* back at the top of its while loop (the sleep has returned), line 148 runs.
LiveSpec == SpecBackoff /\ WF_vars(SetupConnection)

----------------------------------------------------------------------------
(* Properties *)

IsPrefix(a, b) == Len(a) <= Len(b) /\ SubSeq(b, 1, Len(a)) = a

\* the chunk closes a frame as the specification words it: it ends in CR LF and
\* the chunks accumulated since the previous boundary are not blank
ClosesFrame(step) == EndsWithCRLF(step.data) /\ Strip(step.accum) # <<>>

\* b is the beginning of a stream the server may send: frames and keep-alives
RECURSIVE IsStreamPrefix(_)
IsStreamPrefix(b) ==
    \/ b = <<>>
    \/ \E f \in {Frame(tok) : tok \in OpenTokens} \cup {KeepAlive} :
          \/ IsPrefix(b, f)
          \/ IsPrefix(f, b) /\ IsStreamPrefix(SubSeq(b, Len(f) + 1, Len(b)))

\* b is a strict prefix of one JSON object
IsStrictObjectPrefix(b) == \E tok \in OpenTokens : b = <<tok>>

\* C1 as stated: every chunk that ends in CR LF while the accumulated buffer is
\* not blank yields one decoded and classified message, no other chunk yields
\* one, and the decoded text is the concatenation of the chunks since the
\* previous frame boundary.
C1_EveryFrameDecoded ==
    last.op = "handle_tweet" =>
        /\ last.decoded <=> ClosesFrame(last)
        /\ last.decoded => last.text = last.accum

\* C1 amended: a chunk yields a decoded and classified message exactly when it
\* ends in CR LF, the accumulated buffer is not blank and that buffer is valid
\* JSON; the decoded text is the concatenation of the chunks since the previous
\* frame boundary and the message is dispatched once; a chunk that closes a
\* frame of invalid JSON raises instead and is the last of its connection.
C1_ValidFramesDecodedOnce ==
    last.op = "handle_tweet" =>
        /\ last.decoded <=> (ClosesFrame(last) /\ JsonLoads(last.accum).ok)
        /\ last.decoded =>
              /\ last.text = last.accum
              /\ last.message = JsonLoads(last.accum).message
              /\ last.branch = Classify(last.message)
        /\ ~last.decoded => last.message = NoMessage /\ last.branch = "none"
        /\ (ClosesFrame(last) /\ ~JsonLoads(last.accum).ok) => last.raised /\ pc = "loop"

\* a message assembled from more than one chunk, after a blank keep-alive line
C1_Witness ==
    /\ last.op = "handle_tweet"
    /\ last.decoded
    /\ Len(last.accum) > Len(last.data) + 2
    /\ IsPrefix(KeepAlive, last.accum)

\* C2 as stated: between two calls of handle_tweet on a well-formed stream the
\* buffer is empty or a strict prefix of one JSON object.
C2_BufferIsObjectPrefix ==
    (pc = "perform" /\ IsStreamPrefix(buffer)) =>
        (buffer = <<>> \/ IsStrictObjectPrefix(buffer))

\* C2, the case of a terminator cut in two: the buffer never holds a complete
\* message with its terminator.
C2_NoCompleteFrameHeld ==
    pc = "perform" => \A tok \in OpenTokens : ~IsPrefix(Frame(tok), buffer)

\* C3: after setup_connection the buffer is empty, and while a connection
\* streams the buffer holds only chunks of that connection received since its
\* last frame boundary.
C3_ReconnectResetsBuffer ==
    /\ last.op = "setup" => (buffer = <<>> /\ pc = "perform")
    /\ pc = "perform" => buffer = since

\* a connection was set up while the buffer held bytes of the previous one
C3_Witness ==
    /\ last.op = "setup"
    /\ last.dropped # <<>>
    /\ num_reconnect + nHttp + nRate > 0

\* C4: after k network errors backoff_network_error is min(0.25 + k, 16) seconds.
C4_NetworkBackoff ==
    backoff_network_error = Min(QuarterSecond + Seconds(num_reconnect), Seconds(16))

\* more network errors than the ceiling takes: 0.25 + k is above 16
C4_Witness == num_reconnect > 16 /\ backoff_network_error = Seconds(16)

\* C5: after k other-status outcomes backoff_http_error is min(5 * 2^k, 320) seconds.
C5_HttpBackoff ==
    backoff_http_error = Min(Seconds(5) * Pow2(nHttp), Seconds(320))

\* more other-status outcomes than the ceiling takes: 5 * 2^k is above 320
C5_Witness == nHttp > 6 /\ backoff_http_error = Seconds(320)

\* C6: after k rate-limit outcomes backoff_rate_limit is 60 * 2^k seconds, with
\* no ceiling.
C6_RateBackoff ==
    backoff_rate_limit = Seconds(60) * Pow2(nRate)

\* the rate-limit back-off above the ceiling of the other-status back-off
C6_Witness == nRate > 2 /\ backoff_rate_limit > Seconds(320)

\* C7: a step of one class changes only that class's counter, a step of no
\* class changes none, and no step decreases a counter.
C7_IndependentCounters ==
    [][/\ backoff_network_error' >= backoff_network_error
       /\ backoff_http_error' >= backoff_http_error
       /\ backoff_rate_limit' >= backoff_rate_limit
       /\ last'.outcome = "network" =>
             UNCHANGED <<backoff_http_error, backoff_rate_limit>>
       /\ last'.outcome = "rate" =>
             UNCHANGED <<backoff_network_error, backoff_http_error>>
       /\ last'.outcome = "http" =>
             UNCHANGED <<backoff_network_error, backoff_rate_limit>>
       /\ last'.outcome = "none" =>
             UNCHANGED <<backoff_network_error, backoff_http_error, backoff_rate_limit>>
      ]_vars

\* a stream the remote side ended with status 200, after outcomes of the other
\* two classes had raised their counters
C7_Witness ==
    /\ last.op = "status"
    /\ last.sc = 200
    /\ backoff_network_error > QuarterSecond
    /\ backoff_rate_limit > Seconds(60)
    /\ backoff_http_error > Seconds(5)

C9_MalformedFrameReconnects ==
    [][/\ (/\ last'.op = "handle_tweet"
           /\ ClosesFrame(last')
           /\ ~JsonLoads(last'.accum).ok) =>
             /\ last'.raised
             /\ ~last'.decoded
             /\ last'.branch = "none"
             /\ last'.outcome = "network"
             /\ pc' = "loop"
       /\ pc = "loop" => (last'.op = "setup" /\ pc' = "perform" /\ buffer' = <<>>)
      ]_vars

\* an undecodable frame was left in the buffer by an exception of handle_tweet
C9_Witness ==
    /\ last.op = "handle_tweet"
    /\ ClosesFrame(last)
    /\ last.raised
    /\ ~last.decoded
    /\ buffer # <<>>
    /\ pc = "loop"

\* C10: start() has no terminal position, and whenever it is back at the top of
\* its loop after an outcome a new connection is set up and performed.
C10_AlwaysReconnects ==
    /\ [](pc \in {"loop", "perform"})
    /\ (pc = "loop") ~> (pc = "perform" /\ last.op = "setup")

\* a connection set up after outcomes of all three classes
C10_Witness ==
    /\ pc = "perform"
    /\ last.op = "setup"
    /\ num_reconnect > 0
    /\ nHttp > 0
    /\ nRate > 0

----------------------------------------------------------------------------
(* Properties of the dispatch *)

\* the latest step decoded a message
Decoded == last.op = "handle_tweet" /\ last.decoded

\* the point of the decoded message
Lon == last.message.coordinates.lon
Lat == last.message.coordinates.lat

\* the interior of the region, written out for the triangle (0,0) (4,0) (0,2)
InTriangle(lon, lat) == lon > 0 /\ lat > 0 /\ lon + 2 * lat < 4

\* strictly outside the bounding box, as C12 words it
OutsideBox(lon, lat) == lon < min_lon \/ lon > max_lon \/ lat < min_lat \/ lat > max_lat

\* C11: a decoded message with null coordinates reaches neither the
\* bounding-box test nor the polygon test nor the vocabulary scan and yields no
\* match event, whatever its place.
C11_NullCoordinatesNoMatch ==
    (Decoded /\ last.message.coordinates.kind = "null") =>
        /\ ~out.boxTested
        /\ ~out.polyTested
        /\ ~out.scanned
        /\ out.matches = <<>>

\* a tweet with null coordinates whose place is the bounding box of the region
\* and whose text is a vocabulary term went through the dispatch
C11_Witness ==
    /\ Decoded
    /\ last.message.coordinates.kind = "null"
    /\ last.message.place = ShapeBounds(Polygon)
    /\ FindFoods(LoadFoodlist(foods_file), last.message.text) # <<>>
    /\ out.branch = "pass"

\* C12: for a message with a point strictly outside the bounding box the
\* polygon test is not invoked and no match event is emitted.
C12_OutsideBoxNoPolygonTest ==
    (Decoded /\ last.message.coordinates.kind = "point" /\ OutsideBox(Lon, Lat)) =>
        /\ ~out.polyTested
        /\ ~out.scanned
        /\ out.matches = <<>>

\* a tweet above the box, whose point passes the test with lon and lat exchanged
C12_Witness ==
    /\ Decoded
    /\ out.boxTested
    /\ Lat > max_lat
    /\ Lon >= min_lon /\ Lon <= max_lon
    /\ FindFoods(LoadFoodlist(foods_file), last.message.text) # <<>>

\* C13: for a message with a point inside the bounding box but not inside the
\* polygon the vocabulary scan is not run and no match event is emitted; a
\* match event is emitted only for a point inside the polygon, after the test.
C13_OutsidePolygonNoMatch ==
    /\ (/\ Decoded
        /\ last.message.coordinates.kind = "point"
        /\ ~OutsideBox(Lon, Lat)
        /\ ~InTriangle(Lon, Lat)) =>
           (~out.scanned /\ out.matches = <<>>)
    /\ (Decoded /\ (out.scanned \/ out.matches # <<>>)) =>
           (out.polyTested /\ InTriangle(Lon, Lat))

\* a tweet on the edge of the polygon, its text holding vocabulary terms, was
\* tested against the polygon and rejected
C13_Witness ==
    /\ Decoded
    /\ out.polyTested
    /\ ~out.scanned
    /\ Lon + 2 * Lat = 4
    /\ FindFoods(LoadFoodlist(foods_file), last.message.text) # <<>>

C17_FirstMatchWins ==
    Decoded =>
        LET m == last.message
            kind == m.coordinates.kind
        IN  /\ m.limit => out.branch = "limit"
            /\ (~m.limit /\ m.disconnect) => out.branch = "disconnect"
            /\ (~m.limit /\ ~m.disconnect /\ m.warning) => out.branch = "warning"
            /\ (~m.limit /\ ~m.disconnect /\ ~m.warning /\ kind = "null") =>
                   out.branch = "pass"
            /\ (~m.limit /\ ~m.disconnect /\ ~m.warning /\ kind = "point") =>
                   out.branch = "tweet"
            /\ m.limit =>
                   /\ out.notice = "limit"
                   /\ ~last.raised
                   /\ pc = "perform"
                   /\ ~out.boxTested /\ ~out.polyTested /\ ~out.scanned
                   /\ out.matches = <<>>

\* a message with a limit field and a disconnect field went through the dispatch
C17_Witness ==
    /\ Decoded
    /\ last.message.limit
    /\ last.message.disconnect
    /\ out.notice = "limit"

----------------------------------------------------------------------------
(* Properties of find_foods *)

\* the latest step was a call of find_foods on out.text
Called == out.branch = "find_foods"

\* the 2-word substrings of a text in text order
TwoWord(words) == [i \in 1..(Len(words) - 1) |-> words[i] \o <<Space>> \o words[i + 1]]

\* the entries of items from the i-th on whose lowercase form is a term
RECURSIVE Matching(_, _, _)
Matching(terms, items, i) ==
    IF i > Len(items) THEN <<>>
    ELSE (IF LowerStr(items[i]) \in terms THEN <<items[i]>> ELSE <<>>)
             \o Matching(terms, items, i + 1)

\* the ways of listing the matching substrings by the word they start at, from
\* the i-th word on (a word and the 2-word phrase it starts, in either order)
RECURSIVE LeftToRight(_, _, _)
LeftToRight(terms, words, i) ==
    IF i > Len(words) THEN {<<>>}
    ELSE LET uni == Matching(terms, <<words[i]>>, 1)
             bi == IF i < Len(words) THEN Matching(terms, <<TwoWord(words)[i]>>, 1) ELSE <<>>
         IN  {h \o t : h \in {uni \o bi, bi \o uni}, t \in LeftToRight(terms, words, i + 1)}

----------------------------------------------------------------------------
(* Properties of the connection loop *)

\* C18: perform() is left either by an exception or by the status check, and
\* a return with a status other than 420, a 2xx included, sleeps
\* backoff_http_error, doubles it up to 320 seconds and goes back to the top of
\* the loop, with backoff_network_error, backoff_rate_limit and num_reconnect
\* unchanged.
C18_ReturnChecksStatus ==
    [][/\ (pc = "perform" /\ pc' # "perform") =>
             \/ last'.outcome = "network"
             \/ last'.op = "status" /\ last'.outcome \in {"rate", "http"}
       /\ (last'.op = "status" /\ last'.sc # RateLimitStatus) =>
             /\ last'.outcome = "http"
             /\ sleeps' = Append(sleeps, backoff_http_error)
             /\ backoff_http_error' = Min(2 * backoff_http_error, Seconds(320))
             /\ pc' = "loop"
             /\ UNCHANGED <<backoff_network_error, backoff_rate_limit, num_reconnect>>
      ]_vars

\* a stream ended with status 200 after an earlier other-status outcome
C18_Witness ==
    /\ last.op = "status"
    /\ last.sc = 200
    /\ last.outcome = "http"
    /\ nHttp > 1
    /\ pc = "loop"

\* the sleep the latest outcome is to be followed by: the n-th of its class
ExpectedSleep ==
    IF last.outcome = "network"
    THEN Min(QuarterSecond + Seconds(num_reconnect - 1), Seconds(16))
    ELSE IF last.outcome = "rate"
    THEN Seconds(60) * Pow2(nRate - 1)
    ELSE Min(Seconds(5) * Pow2(nHttp - 1), Seconds(320))

\* C19: when perform() is called, exactly one sleep has taken place since the
\* previous call, of min(0.25 + (n-1), 16) seconds after the n-th network
\* error, 60 * 2^(n-1) after the n-th 420 and min(5 * 2^(n-1), 320) after the
\* n-th other status; none has taken place before the first call.
C19_OneSleepPerAttempt ==
    [][last'.op = "setup" =>
          sleeps = (IF Len(handles.attempts) = 0 THEN <<>> ELSE <<ExpectedSleep>>)
      ]_vars

\* a loop that has slept after outcomes of all three classes, the latest one a
\* network error past the ceiling
C19_Witness ==
    /\ pc = "loop"
    /\ last.outcome = "network"
    /\ num_reconnect > 16
    /\ nRate > 0
    /\ nHttp > 0
    /\ sleeps = <<Seconds(16)>>

\* C20: the handles and the headers of the attempts are pairwise different and
\* none is the one built before start(); perform() runs on the handle and the
\* header the setup_connection before it made, and that setup_connection closed
\* the handle before: the only open handle is the current one.
C20_FreshHandleAndHeader ==
    LET a == handles.attempts
    IN  /\ \A i, j \in 1..Len(a) :
               i < j => (a[i].id # a[j].id /\ a[i].header # a[j].header)
        /\ \A i \in 1..Len(a) : a[i].id > 2 /\ a[i].header > 2
        /\ handles.open = {conn.id}
        /\ pc = "perform" => (a # <<>> /\ conn = a[Len(a)])

\* the fourth attempt is being made
C20_Witness ==
    /\ pc = "perform"
    /\ Len(handles.attempts) = 4
    /\ num_reconnect > 0 /\ nHttp > 0 /\ nRate > 0

====
